---- MODULE Spec2Model ----
(***************************************************************************)
(* A model of src/main.ts, the CoinKiosk class: the annotation store        *)
(* (annotations[]), the annotation renderer (renderAnnotations,            *)
(* updateAnnotationList), the interaction controller (add-annotation       *)
(* button, edit modal, mouse-down / -move / -up drag) and the camera        *)
(* animator (focusOnAnnotation, animateCameraTo).                          *)
(*                                                                         *)
(* Conventions.                                                            *)
(*  - Array indices are the 0-based indices of the TypeScript code; the    *)
(*    record with index i is annotations[i + 1] of the TLA+ sequence.      *)
(*  - A value that may be null or undefined is a sequence of length <= 1:  *)
(*    <<>> is null / undefined, <<v>> is v.                                *)
(*  - A string is a sequence of tokens: " " is a run of white space,       *)
(*    "<b>" and "</b>" are HTML tags, every other token is plain text      *)
(*    without white space at its ends.                                     *)
(*  - A THREE.Vector3 is <<x, y, z>> in hundredths of a unit.  Every       *)
(*    record owns its position vector: addNewAnnotation allocates a new    *)
(*    one (line 449) and saveEdit hands a record its own vector back       *)
(*    (line 570), so copy() into it changes that record alone.             *)
(***************************************************************************)
EXTENDS Integers, Sequences, FiniteSets, TLC

(***************************************************************************)
(* Bounds of the model.                                                    *)
(***************************************************************************)
\* The add operations are offered while the array holds fewer records.
MaxAnnotations == 3
\* The edit modal is opened at most this many times (each open registers
\* one more pair of click handlers).
MaxOpens == 3
\* Camera animation loops in flight at the same time.
MaxLoops == 2
\* Camera animations started in one run.
MaxAnimations == 2
\* Milliseconds the clock advances between two observations of Date.now().
TickMs == 500
\* Milliseconds between two points of the grid of progress values.
GridMs == 25
\* Objects one mouse-down ray meets at most.
MaxHits == 2

(***************************************************************************)
(* Program constants.                                                      *)
(***************************************************************************)
\* animateCameraTo: const duration = 1000
Duration == 1000
\* onMouseMove: new THREE.SphereGeometry(1.5, 32, 32), in hundredths
ProxyRadius == 150
\* renderAnnotations: multiplyScalar(2.5), in hundredths
LabelRadius == 250

Null == <<>>
Some(v) == <<v>>

Origin == <<0, 0, 0>>
\* setupAnnotations: new THREE.Vector3(0.9, 0.05, 0.2)
InitialPosition == <<90, 5, 20>>
\* addNewAnnotation: new THREE.Vector3(0, 0.2, 1)
DefaultPosition == <<0, 20, 100>>
\* constructor: this.camera.position.set(5, 3, 5)
InitialCamera == <<500, 300, 500>>
\* focusOnAnnotation: new THREE.Vector3(2, 1.5, 2)
FocusOffset == <<200, 150, 200>>

DefaultColor == "#8b7ba8"
DefaultShape == "sphere"
InitialLabel == <<"Imperial Inscription">>
InitialDescription ==
    <<"The Latin inscription names the emperor and asserts his authority, functioning as both identification and propaganda.">>
DefaultDescription == <<"Add your annotation description here.">>

(***************************************************************************)
(* Strings.                                                                *)
(***************************************************************************)
Tags == {"<b>", "</b>"}

IsSpace(tok) == tok = " "

RECURSIVE TrimStart(_)
TrimStart(s) ==
    IF s # <<>> /\ IsSpace(Head(s)) THEN TrimStart(Tail(s)) ELSE s

RECURSIVE TrimEnd(_)
TrimEnd(s) ==
    IF s # <<>> /\ IsSpace(s[Len(s)])
    THEN TrimEnd(SubSeq(s, 1, Len(s) - 1))
    ELSE s

\* String.prototype.trim()
Trim(s) == TrimEnd(TrimStart(s))

\* The text a node shows after its innerHTML was set to the string s: the
\* HTML parser turns the tags of s into elements, which are no text.
InnerHTMLText(s) == SelectSeq(s, LAMBDA tok : tok \notin Tags)

\* The text a node shows after node.textContent = v: the string as it is,
\* the empty string for undefined.
TextContent(v) == IF v = Null THEN <<>> ELSE v[1]

\* `Annotation ${n}`
AnnotationLabel(n) == <<"Annotation", " ", ToString(n)>>

(***************************************************************************)
(* Vectors.                                                                *)
(***************************************************************************)
Add3(p, q) == <<p[1] + q[1], p[2] + q[2], p[3] + q[3]>>

LengthSq(p) == p[1] * p[1] + p[2] * p[2] + p[3] * p[3]

\* position.clone().normalize().multiplyScalar(2.5): the point at distance
\* 2.5 from the origin in the direction of position.  normalize() divides
\* by the length, or by 1 when the length is 0, which leaves the origin at
\* the origin.
LabelOffset(position) ==
    [direction |-> position,
     radius |-> IF position = Origin THEN 0 ELSE LabelRadius]

(***************************************************************************)
(* Values the environment supplies (small sets).                           *)
(***************************************************************************)
\* Points of the proxy sphere a drag ray can hit first.
DragPoints ==
    {p \in {<<150, 0, 0>>, <<0, 150, 0>>} :
        LengthSq(p) = ProxyRadius * ProxyRadius}

\* What the user may leave in the fields edit-label, edit-color, edit-shape.
TypedForms ==
    {[label |-> <<" ", "Gate", " ">>, color |-> "#ff0000", shape |-> "cube"],
     [label |-> <<"<b>", "Gate", "</b>">>, color |-> DefaultColor, shape |-> "cone"]}

\* Arguments of a direct call of addAnnotation; <<>> is an omitted argument.
AddArguments ==
    {[label |-> <<"Mint">>, position |-> <<0, 150, 0>>, color |-> Null,
      shape |-> Null, description |-> Null],
     [label |-> <<"Rim">>, position |-> Origin, color |-> Some("#00ff00"),
      shape |-> Some("cylinder"), description |-> Some(<<"Edge">>)]}

\* Arguments of a direct call of updateAnnotation.
UpdateArguments ==
    {[label |-> <<"Bust">>, position |-> <<150, 0, 0>>, color |-> "#0000ff",
      shape |-> "cube", description |-> Some(<<"Portrait">>)]}

\* Indices passed to update, delete and focus: in range and out of range.
IndexArguments == -1 .. MaxAnnotations

(***************************************************************************)
(* The state of the program.                                               *)
(***************************************************************************)
VARIABLES
    annotations,            \* this.annotations
    scene,                  \* this.scene.children
    annotationList,         \* the <li> children of #annotation-list
    currentEditIndex,       \* this.currentEditIndex
    isDragging,             \* this.isDragging
    draggedAnnotationIndex, \* this.draggedAnnotationIndex
    controlsEnabled,        \* this.controls.enabled
    lockChecked,            \* #lock-position .checked
    modalDisplay,           \* #edit-modal .style.display
    form,                   \* the values of #edit-label, #edit-color, #edit-shape
    clickHandlers,          \* click listeners on #save-edit (and on #cancel-edit)
    cameraPosition,         \* this.camera.position
    controlsTarget,         \* this.controls.target
    loops,                  \* the animate closures with a frame callback pending
    animationsStarted,      \* history: the calls of animateCameraTo so far
    lastOp,                 \* history: the last handler run, its index, whether it threw
    lastInput,              \* history: what the last mouse event's ray met
    lastUpdates             \* history: the records the last event wrote over

vars ==
    <<annotations, scene, annotationList, currentEditIndex, isDragging,
      draggedAnnotationIndex, controlsEnabled, lockChecked, modalDisplay, form,
      clickHandlers, cameraPosition, controlsTarget, loops, animationsStarted,
      lastOp, lastInput, lastUpdates>>

\* The program state as one record, which the handlers below transform.
\* threw: an exception left the handler uncaught.  updates: the times
\* updateAnnotation wrote over a record since the event began.
State ==
    [annotations |-> annotations, scene |-> scene,
     annotationList |-> annotationList, currentEditIndex |-> currentEditIndex,
     isDragging |-> isDragging,
     draggedAnnotationIndex |-> draggedAnnotationIndex,
     controlsEnabled |-> controlsEnabled, lockChecked |-> lockChecked,
     modalDisplay |-> modalDisplay, form |-> form,
     clickHandlers |-> clickHandlers, cameraPosition |-> cameraPosition,
     controlsTarget |-> controlsTarget, loops |-> loops,
     animationsStarted |-> animationsStarted, threw |-> FALSE,
     updates |-> 0]

\* this.annotations[index] is an object (truthy), not undefined
HasRecord(anns, index) == index \in 0 .. Len(anns) - 1

(***************************************************************************)
(* Annotation renderer.                                                    *)
(***************************************************************************)
\* One child of the scene.  annotationIndex is userData.annotationIndex,
\* label the CSS2DObject added to a marker.
SceneObject(kind, tagged, index, geometry, color, position, points, label) ==
    [kind |-> kind, isAnnotationMarker |-> tagged, annotationIndex |-> index,
     geometry |-> geometry, color |-> color, position |-> position,
     points |-> points, label |-> label]

\* setupLighting: the four lights, the scene's children before any marker.
Lights ==
    <<SceneObject("AmbientLight", FALSE, Null, "", "#ffffff", Origin, <<>>, Null),
      SceneObject("DirectionalLight", FALSE, Null, "", "#ffffff",
                  <<500, 500, 500>>, <<>>, Null),
      SceneObject("DirectionalLight", FALSE, Null, "", "#ffffff",
                  <<-500, 0, -500>>, <<>>, Null),
      SceneObject("DirectionalLight", FALSE, Null, "", "#ffffff",
                  <<0, -500, 0>>, <<>>, Null)>>

\* getMarkerGeometry: the geometry class for a shape.  No method calls it.
getMarkerGeometry(shape) ==
    CASE shape = "cube" -> "BoxGeometry"
      [] shape = "cone" -> "ConeGeometry"
      [] shape = "cylinder" -> "CylinderGeometry"
      [] OTHER -> "SphereGeometry"

\* The marker of one record: a ring mesh at the record's position, tagged
\* with the record's index, with the label as its child.
Marker(annotation, index) ==
    SceneObject("Mesh", TRUE, Some(index), "RingGeometry", annotation.color,
                annotation.position, <<>>,
                Some([title |-> annotation.label,
                      description |-> TextContent(annotation.description),
                      position |-> LabelOffset(annotation.position)]))

\* The line of one record, from its position to the label anchor; tagged
\* as annotation visual, without an index.
Line(annotation) ==
    SceneObject("Line", TRUE, Null, "BufferGeometry", annotation.color, Origin,
                <<annotation.position, LabelOffset(annotation.position)>>, Null)

\* The forEach of renderAnnotations from the record with index `index` on.
RECURSIVE AnnotationVisuals(_, _)
AnnotationVisuals(anns, index) ==
    IF index >= Len(anns)
    THEN <<>>
    ELSE <<Marker(anns[index + 1], index), Line(anns[index + 1])>>
         \o AnnotationVisuals(anns, index + 1)

\* A variant that tells annotation visuals by userData.annotationIndex, which
\* the lines do not carry.
ClearMarkersByIndex(children) ==
    SelectSeq(children, LAMBDA child : child.annotationIndex = Null)

\* The children renderAnnotations keeps: those not tagged isAnnotationMarker.
ClearMarkers(children) ==
    SelectSeq(children, LAMBDA child : ~child.isAnnotationMarker)

\* updateAnnotationList: one <li data-index="index"> per record, whose span
\* gets the label as HTML.
updateAnnotationList(st) ==
    [st EXCEPT !.annotationList =
        [k \in 1 .. Len(st.annotations) |->
            [dataIndex |-> ToString(k - 1),
             text |-> InnerHTMLText(st.annotations[k].label)]]]

renderAnnotations(st) ==
    updateAnnotationList(
        [st EXCEPT !.scene =
            ClearMarkers(st.scene) \o AnnotationVisuals(st.annotations, 0)])

(***************************************************************************)
(* Annotation store.                                                       *)
(***************************************************************************)
OrDefault(argument, default) ==
    IF argument = Null THEN default ELSE argument[1]

\* A variant that adds at the front (Array.prototype.unshift).
Unshift(array, item) == <<item>> \o array

\* Array.prototype.push
Push(array, item) == Append(array, item)

\* A variant that drops the last deleteCount items, whatever start is.
SpliceTail(array, start, deleteCount) ==
    SubSeq(array, 1, Len(array) - deleteCount)

\* Array.prototype.splice(start, deleteCount): a negative start counts from
\* the end, and both are clamped to the array.
Splice(array, start, deleteCount) ==
    LET len == Len(array)
        from == IF start < 0
                THEN (IF len + start < 0 THEN 0 ELSE len + start)
                ELSE (IF start > len THEN len ELSE start)
        count == IF deleteCount < 0 THEN 0
                 ELSE IF deleteCount > len - from THEN len - from
                 ELSE deleteCount
    IN  SubSeq(array, 1, from) \o SubSeq(array, from + count + 1, len)

\* color, shape and description are optional arguments with defaults.
addAnnotation(st, label, position, color, shape, description) ==
    renderAnnotations(
        [st EXCEPT !.annotations =
            Push(st.annotations,
                 [position |-> position, label |-> label,
                  description |-> Some(OrDefault(description, <<>>)),
                  color |-> OrDefault(color, DefaultColor),
                  shape |-> OrDefault(shape, DefaultShape)])])

\* A variant that reads a negative index from the end of the array, as
\* Array.prototype.at does.
updateAnnotationAt(st, index, label, position, color, shape, description) ==
    LET at == IF index < 0 THEN Len(st.annotations) + index ELSE index
    IN  IF HasRecord(st.annotations, at)
        THEN renderAnnotations(
                [st EXCEPT !.annotations[at + 1] =
                    [position |-> position, label |-> label,
                     description |-> description, color |-> color,
                     shape |-> shape]])
        ELSE st

\* description is stored as it is passed: undefined when the caller gives none.
updateAnnotation(st, index, label, position, color, shape, description) ==
    IF HasRecord(st.annotations, index)
    THEN renderAnnotations(
            [st EXCEPT !.annotations[index + 1] =
                [position |-> position, label |-> label,
                 description |-> description, color |-> color,
                 shape |-> shape],
                       !.updates = st.updates + 1])
    ELSE st

deleteAnnotation(st, index) ==
    renderAnnotations(
        [st EXCEPT !.annotations = Splice(st.annotations, index, 1)])

(***************************************************************************)
(* Interaction controller.                                                 *)
(***************************************************************************)
\* A variant that hides the modal and keeps currentEditIndex.
closeEditModalKeepsIndex(st) == [st EXCEPT !.modalDisplay = "none"]

closeEditModal(st) ==
    [st EXCEPT !.modalDisplay = "none", !.currentEditIndex = Null]

\* Reading annotation.label of a missing record throws (line 542), after
\* currentEditIndex was set and before the modal is shown.  The two
\* removeEventListener calls name functions that were never registered and
\* remove nothing; each open registers one more listener on either button.
openEditModal(st, index) ==
    LET opened == [st EXCEPT !.currentEditIndex = Some(index)]
    IN  IF ~HasRecord(st.annotations, index)
        THEN [opened EXCEPT !.threw = TRUE]
        ELSE [opened EXCEPT
                !.form = [label |-> st.annotations[index + 1].label,
                          color |-> st.annotations[index + 1].color,
                          shape |-> st.annotations[index + 1].shape],
                !.modalDisplay = "flex",
                !.clickHandlers = st.clickHandlers + 1]

\* A variant that opens the editor on the index it had before the push.
addNewAnnotationOpensBefore(st) ==
    LET added == addAnnotation(st,
                     AnnotationLabel(Len(st.annotations) + 1), DefaultPosition,
                     Some("#8b7ba8"), Some("sphere"), Some(DefaultDescription))
    IN  openEditModal(added, Len(st.annotations) - 1)

addNewAnnotation(st) ==
    LET added == addAnnotation(st,
                     AnnotationLabel(Len(st.annotations) + 1), DefaultPosition,
                     Some("#8b7ba8"), Some("sphere"), Some(DefaultDescription))
    IN  openEditModal(added, Len(added.annotations) - 1)

\* A variant that hides the modal and goes on holding currentEditIndex.
saveEditHoldsIndex(st) ==
    IF st.currentEditIndex = Null
    THEN st
    ELSE LET index == st.currentEditIndex[1]
             label == Trim(st.form.label)
         IN  IF ~HasRecord(st.annotations, index)
             THEN [st EXCEPT !.threw = TRUE]
             ELSE [updateAnnotation(st, index, label,
                       st.annotations[index + 1].position,
                       st.form.color, st.form.shape, Null)
                   EXCEPT !.modalDisplay = "none"]

\* Reading .position of a missing record throws (line 570).  updateAnnotation
\* is called with five arguments: description is undefined.
saveEdit(st) ==
    IF st.currentEditIndex = Null
    THEN st
    ELSE LET index == st.currentEditIndex[1]
             label == Trim(st.form.label)
         IN  IF ~HasRecord(st.annotations, index)
             THEN [st EXCEPT !.threw = TRUE]
             ELSE closeEditModal(
                     updateAnnotation(st, index, label,
                         st.annotations[index + 1].position,
                         st.form.color, st.form.shape, Null))

\* A click on #save-edit runs every registered listener in turn; an
\* exception in one does not keep the next from running.
RECURSIVE SaveListeners(_, _)
SaveListeners(n, st) ==
    IF n = 0 THEN st ELSE SaveListeners(n - 1, saveEdit(st))

\* A click on #cancel-edit, likewise.
RECURSIVE CancelListeners(_, _)
CancelListeners(n, st) ==
    IF n = 0 THEN st ELSE CancelListeners(n - 1, closeEditModal(st))

\* intersects: the positions in scene.children of the children tagged
\* isAnnotationMarker that the ray meets, the nearest first.
onMouseDown(st, intersects) ==
    IF st.currentEditIndex = Null
    THEN st
    ELSE IF Len(intersects) > 0
            /\ st.scene[intersects[1]].annotationIndex = st.currentEditIndex
         THEN [st EXCEPT !.isDragging = TRUE,
                         !.draggedAnnotationIndex = st.currentEditIndex,
                         !.controlsEnabled = FALSE]
         ELSE st

\* A variant in which records created with the same position share one
\* vector: copy() into it moves them all.
CopyPositionShared(anns, index, newPosition) ==
    [k \in 1 .. Len(anns) |->
        IF anns[k].position = anns[index + 1].position
        THEN [anns[k] EXCEPT !.position = newPosition]
        ELSE anns[k]]

\* position.copy(newPosition) writes into the record's own vector.
CopyPosition(anns, index, newPosition) ==
    [anns EXCEPT ![index + 1].position = newPosition]

\* A variant that moves the record and its old marker and renders nothing.
onMouseMoveMarkerOnly(st, hit) ==
    IF ~st.isDragging \/ st.draggedAnnotationIndex = Null \/ hit = Null
    THEN st
    ELSE [st EXCEPT
            !.annotations =
                CopyPosition(st.annotations, st.draggedAnnotationIndex[1],
                             hit[1]),
            !.scene =
                [k \in 1 .. Len(st.scene) |->
                    IF /\ st.scene[k].kind = "Mesh"
                       /\ st.scene[k].annotationIndex
                             = st.draggedAnnotationIndex
                    THEN [st.scene[k] EXCEPT !.position = hit[1]]
                    ELSE st.scene[k]]]

\* hit: intersects[0].point on the proxy sphere, or Null when the ray
\* misses it.  Writing to a missing record throws (line 502).  The old
\* marker moved at line 506 is dropped by the re-render that follows.
onMouseMove(st, hit) ==
    IF ~st.isDragging \/ st.draggedAnnotationIndex = Null
    THEN st
    ELSE IF hit = Null
         THEN st
         ELSE IF ~HasRecord(st.annotations, st.draggedAnnotationIndex[1])
              THEN [st EXCEPT !.threw = TRUE]
              ELSE renderAnnotations(
                      [st EXCEPT !.annotations =
                          CopyPosition(st.annotations,
                              st.draggedAnnotationIndex[1], hit[1])])

\* A variant without the isDragging test.
onMouseUpUnguarded(st) ==
    [st EXCEPT !.isDragging = FALSE, !.draggedAnnotationIndex = Null,
               !.controlsEnabled = TRUE]

onMouseUp(st) ==
    IF st.isDragging
    THEN [st EXCEPT !.isDragging = FALSE, !.draggedAnnotationIndex = Null,
                    !.controlsEnabled = TRUE]
    ELSE st

\* The change listener of #lock-position, after the box took its new value.
lockPositionChange(st, checked) ==
    [st EXCEPT !.lockChecked = checked, !.controlsEnabled = ~checked]

(***************************************************************************)
(* Camera animator.                                                        *)
(***************************************************************************)
\* eased, as the numerator of a fraction over Duration * Duration, for
\* progress = elapsed / Duration.
\* 2 * progress * progress
EaseIn(elapsed) == 2 * elapsed * elapsed

\* -1 + (4 - 2 * progress) * progress
EaseOut(elapsed) ==
    (4 * Duration - 2 * elapsed) * elapsed - Duration * Duration

\* A variant that keeps the first branch over the whole interval.
EasedInOnly(elapsed) == EaseIn(elapsed)

Eased(elapsed) ==
    IF 2 * elapsed < Duration THEN EaseIn(elapsed) ELSE EaseOut(elapsed)

\* One coordinate of lerpVectors(v1, v2, alpha): v1 + (v2 - v1) * alpha,
\* rounded down to the hundredth.
Lerp(v1, v2, elapsed) ==
    v1 + ((v2 - v1) * Eased(elapsed)) \div (Duration * Duration)

LerpVectors(v1, v2, elapsed) ==
    <<Lerp(v1[1], v2[1], elapsed), Lerp(v1[2], v2[2], elapsed),
      Lerp(v1[3], v2[3], elapsed)>>

\* A variant that asks for the next frame at progress 1 as well.
animateAtMostOne(st, loop) ==
    [st EXCEPT
        !.cameraPosition =
            LerpVectors(loop.startPosition, loop.position, loop.elapsed),
        !.controlsTarget =
            LerpVectors(loop.startTarget, loop.lookAt, loop.elapsed),
        !.loops = Append(st.loops, loop)]

\* One run of the closure `animate` of animateCameraTo.  loop.elapsed is
\* Date.now() - startTime, kept up to Duration (progress is the minimum of
\* elapsed / duration and 1).  With progress < 1 the closure asks for the
\* next frame.
animate(st, loop) ==
    LET moved == [st EXCEPT
                    !.cameraPosition =
                        LerpVectors(loop.startPosition, loop.position, loop.elapsed),
                    !.controlsTarget =
                        LerpVectors(loop.startTarget, loop.lookAt, loop.elapsed)]
    IN  IF loop.elapsed < Duration
        THEN [moved EXCEPT !.loops = Append(moved.loops, loop)]
        ELSE moved

\* A variant that cancels the frame callbacks of the earlier calls.
animateCameraToAlone(st, position, lookAt) ==
    animate([st EXCEPT !.animationsStarted = st.animationsStarted + 1,
                       !.loops = <<>>],
                [id |-> st.animationsStarted + 1,
                 startPosition |-> st.cameraPosition,
                 startTarget |-> st.controlsTarget,
                 position |-> position, lookAt |-> lookAt, elapsed |-> 0])

\* The first run of animate is synchronous, at elapsed = 0.  id tells the
\* closures of different calls apart: the ordinal of the call.
animateCameraTo(st, position, lookAt) ==
    animate([st EXCEPT !.animationsStarted = st.animationsStarted + 1],
                [id |-> st.animationsStarted + 1,
                 startPosition |-> st.cameraPosition,
                 startTarget |-> st.controlsTarget,
                 position |-> position, lookAt |-> lookAt, elapsed |-> 0])

\* A variant that moves an out-of-range index to the nearest record.
focusOnAnnotationNearest(st, index) ==
    LET n == Len(st.annotations)
        nearest == IF index < 0 THEN 0 ELSE IF index >= n THEN n - 1 ELSE index
    IN  IF n > 0
        THEN animateCameraTo(st,
                Add3(st.annotations[nearest + 1].position, FocusOffset),
                st.annotations[nearest + 1].position)
        ELSE st

focusOnAnnotation(st, index) ==
    IF index >= 0 /\ index < Len(st.annotations)
    THEN animateCameraTo(st,
            Add3(st.annotations[index + 1].position, FocusOffset),
            st.annotations[index + 1].position)
    ELSE st

\* parseInt of a data-index attribute written by updateAnnotationList.
ParseInt(string) ==
    CHOOSE n \in 0 .. MaxAnnotations + 1 : ToString(n) = string

\* A click on the k-th <li> of the list (or on its span).
annotationListClick(st, k) ==
    focusOnAnnotation(st, ParseInt(st.annotationList[k].dataIndex))

\* One display frame: the pending frame callbacks run in the order they
\* were requested; what they request runs in the next frame.
RECURSIVE FrameCallbacks(_, _)
FrameCallbacks(callbacks, st) ==
    IF callbacks = <<>>
    THEN st
    ELSE FrameCallbacks(Tail(callbacks), animate(st, Head(callbacks)))

animationFrame(st) ==
    FrameCallbacks(st.loops, [st EXCEPT !.loops = <<>>])

\* The clock advances by ms: so does Date.now() - startTime of every loop.
Advance(pending, ms) ==
    [k \in 1 .. Len(pending) |->
        [pending[k] EXCEPT !.elapsed =
            IF pending[k].elapsed + ms > Duration
            THEN Duration
            ELSE pending[k].elapsed + ms]]

(***************************************************************************)
(* Initial state: the state the constructor leaves.                        *)
(***************************************************************************)
\* setupAnnotations: the one initial record, rendered.  The edit modal is
\* hidden and its fields are empty until openEditModal fills them.
Constructed ==
    renderAnnotations(
        [annotations |->
            <<[position |-> InitialPosition, label |-> InitialLabel,
               description |-> Some(InitialDescription),
               color |-> "#8b7ba8", shape |-> "sphere"]>>,
         scene |-> Lights, annotationList |-> <<>>,
         currentEditIndex |-> Null, isDragging |-> FALSE,
         draggedAnnotationIndex |-> Null, controlsEnabled |-> TRUE,
         lockChecked |-> FALSE, modalDisplay |-> "none",
         form |-> [label |-> <<>>, color |-> "", shape |-> ""],
         clickHandlers |-> 0, cameraPosition |-> InitialCamera,
         controlsTarget |-> Origin, loops |-> <<>>, animationsStarted |-> 0,
         threw |-> FALSE, updates |-> 0])

\* Progress values of the ease function, as elapsed milliseconds.
Grid == {e \in 0 .. Duration : e % GridMs = 0 \/ e = Duration}

\* The first camera animation, to the initial annotation, after elapsed ms.
InFlight(elapsed) ==
    LET started == focusOnAnnotation(Constructed, 0)
    IN  [started EXCEPT !.loops = Advance(started.loops, elapsed)]

\* The variables take the values of the record st; lastOp notes the handler
\* and lastInput what its ray met.
BecomesWith(st, op, arg, input) ==
    /\ annotations' = st.annotations
    /\ scene' = st.scene
    /\ annotationList' = st.annotationList
    /\ currentEditIndex' = st.currentEditIndex
    /\ isDragging' = st.isDragging
    /\ draggedAnnotationIndex' = st.draggedAnnotationIndex
    /\ controlsEnabled' = st.controlsEnabled
    /\ lockChecked' = st.lockChecked
    /\ modalDisplay' = st.modalDisplay
    /\ form' = st.form
    /\ clickHandlers' = st.clickHandlers
    /\ cameraPosition' = st.cameraPosition
    /\ controlsTarget' = st.controlsTarget
    /\ loops' = st.loops
    /\ animationsStarted' = st.animationsStarted
    /\ lastOp' = [op |-> op, arg |-> arg, threw |-> st.threw]
    /\ lastInput' = input
    /\ lastUpdates' = st.updates

Becomes(st, op, arg) == BecomesWith(st, op, arg, Null)

Init ==
    /\ annotations = Constructed.annotations
    /\ scene = Constructed.scene
    /\ annotationList = Constructed.annotationList
    /\ currentEditIndex = Null
    /\ isDragging = FALSE
    /\ draggedAnnotationIndex = Null
    /\ controlsEnabled = TRUE
    /\ lockChecked = FALSE
    /\ modalDisplay = "none"
    /\ form = Constructed.form
    /\ clickHandlers = 0
    /\ cameraPosition = InitialCamera
    /\ controlsTarget = Origin
    /\ loops = <<>>
    /\ animationsStarted = 0
    /\ lastOp = [op |-> "constructor", arg |-> Null, threw |-> FALSE]
    /\ lastInput = Null
    /\ lastUpdates = 0

\* An animation in flight whose next frame finds any progress of the grid.
InitEase ==
    \E elapsed \in Grid :
        /\ annotations = Constructed.annotations
        /\ scene = Constructed.scene
        /\ annotationList = Constructed.annotationList
        /\ currentEditIndex = Null
        /\ isDragging = FALSE
        /\ draggedAnnotationIndex = Null
        /\ controlsEnabled = TRUE
        /\ lockChecked = FALSE
        /\ modalDisplay = "none"
        /\ form = Constructed.form
        /\ clickHandlers = 0
        /\ cameraPosition = InFlight(elapsed).cameraPosition
        /\ controlsTarget = InFlight(elapsed).controlsTarget
        /\ loops = InFlight(elapsed).loops
        /\ animationsStarted = InFlight(elapsed).animationsStarted
        /\ lastOp = [op |-> IF elapsed = 0 THEN "focusOnAnnotation" ELSE "tick",
                     arg |-> IF elapsed = 0 THEN Some(0) ELSE Null,
                     threw |-> FALSE]
        /\ lastInput = Null
        /\ lastUpdates = 0

(***************************************************************************)
(* Events of the user interface, as setupEventListeners wires them.        *)
(***************************************************************************)
\* Click on #add-annotation.
AddAnnotationClick ==
    /\ Len(annotations) < MaxAnnotations
    /\ clickHandlers < MaxOpens
    /\ Becomes(addNewAnnotation(State), "addNewAnnotation", Null)

\* The user edits the fields of the open modal.
TypeForm ==
    /\ modalDisplay = "flex"
    /\ \E typed \in TypedForms :
          Becomes([State EXCEPT !.form = typed], "type", Null)

\* Click on #save-edit.
SaveClick ==
    Becomes(SaveListeners(clickHandlers, State), "saveEdit", currentEditIndex)

\* Click on #cancel-edit.
CancelClick ==
    Becomes(CancelListeners(clickHandlers, State), "closeEditModal",
            currentEditIndex)

\* The scene children a mouse-down ray can meet.
Pickable == {k \in 1 .. Len(scene) : scene[k].isAnnotationMarker}

\* The results of intersectObjects: up to most distinct children, in the
\* order of their distance from the camera.
Intersections(most) ==
    {hits \in UNION {[1 .. n -> Pickable] : n \in 0 .. most} :
        \A j, k \in 1 .. Len(hits) : j # k => hits[j] # hits[k]}

\* lastInput: the annotationIndex of each child the ray met, nearest first
\* (a line's is undefined, Null here).
MouseDownMeeting(most) ==
    \E intersects \in Intersections(most) :
        BecomesWith(onMouseDown(State, intersects), "onMouseDown",
                    IF intersects = <<>> THEN Null
                    ELSE scene[intersects[1]].annotationIndex,
                    [k \in 1 .. Len(intersects) |->
                        scene[intersects[k]].annotationIndex])

\* A mouse-down whose ray meets one tagged child at most.
MouseDown == MouseDownMeeting(1)

\* A mouse-down whose ray passes through several tagged children.
MouseDownThrough == MouseDownMeeting(MaxHits)

\* lastInput: the first point of the proxy sphere the ray met, if any.
MouseMove ==
    \E hit \in {Null} \cup {Some(p) : p \in DragPoints} :
        BecomesWith(onMouseMove(State, hit), "onMouseMove",
                    draggedAnnotationIndex, hit)

MouseUp ==
    Becomes(onMouseUp(State), "onMouseUp", draggedAnnotationIndex)

\* The user toggles #lock-position.
LockPositionChange ==
    Becomes(lockPositionChange(State, ~lockChecked), "lockPosition", Null)

\* Click on an item of #annotation-list.
AnnotationListClick ==
    \E k \in 1 .. Len(annotationList) :
        /\ Len(loops) < MaxLoops
        /\ animationsStarted < MaxAnimations
        /\ Becomes(annotationListClick(State, k), "listClick", Some(k - 1))

\* The browser runs the pending frame callbacks.
AnimationFrame ==
    /\ loops # <<>>
    /\ Becomes(animationFrame(State), "frame", Null)

\* Time passes while a camera animation is in flight.
Tick ==
    /\ \E k \in 1 .. Len(loops) : loops[k].elapsed < Duration
    /\ Becomes([State EXCEPT !.loops = Advance(loops, TickMs)], "tick", Null)

\* Time passes in steps of the progress grid.
TickGrid ==
    /\ \E k \in 1 .. Len(loops) : loops[k].elapsed < Duration
    /\ Becomes([State EXCEPT !.loops = Advance(loops, GridMs)], "tick", Null)

(***************************************************************************)
(* Direct calls of the store's and the animator's methods.                 *)
(***************************************************************************)
AddCall ==
    /\ Len(annotations) < MaxAnnotations
    /\ \E a \in AddArguments :
          Becomes(addAnnotation(State, a.label, a.position, a.color, a.shape,
                                a.description),
                  "addAnnotation", Null)

UpdateCall ==
    \E index \in IndexArguments, a \in UpdateArguments :
        Becomes(updateAnnotation(State, index, a.label, a.position, a.color,
                                 a.shape, a.description),
                "updateAnnotation", Some(index))

DeleteCall ==
    \E index \in IndexArguments :
        Becomes(deleteAnnotation(State, index), "deleteAnnotation", Some(index))

FocusCall ==
    \E index \in IndexArguments :
        /\ HasRecord(annotations, index) =>
              Len(loops) < MaxLoops /\ animationsStarted < MaxAnimations
        /\ Becomes(focusOnAnnotation(State, index), "focusOnAnnotation",
                   Some(index))

(***************************************************************************)
(* Specifications.                                                         *)
(***************************************************************************)
\* The annotation editor as the user drives it.
Next ==
    \/ AddAnnotationClick
    \/ TypeForm
    \/ SaveClick
    \/ CancelClick
    \/ MouseDown
    \/ MouseMove
    \/ MouseUp
    \/ LockPositionChange

Spec == Init /\ [][Next]_vars

\* The store's methods called directly, in any order, and the add button.
NextStore ==
    \/ AddAnnotationClick
    \/ AddCall
    \/ UpdateCall
    \/ DeleteCall

SpecStore == Init /\ [][NextStore]_vars

\* The camera animator over a store that grows and shrinks.
NextCamera ==
    \/ AnnotationListClick
    \/ FocusCall
    \/ AnimationFrame
    \/ Tick
    \/ AddCall
    \/ DeleteCall

SpecCamera == Init /\ [][NextCamera]_vars

\* The camera animator over the initial store, which a delete may empty,
\* with the browser delivering frames while a callback is pending and the
\* clock advancing while an animation is in flight.
NextFocus ==
    \/ AnnotationListClick
    \/ FocusCall
    \/ AnimationFrame
    \/ Tick
    \/ DeleteCall

SpecCameraFair ==
    /\ Init
    /\ [][NextFocus]_vars
    /\ WF_vars(AnimationFrame)
    /\ WF_vars(Tick)

\* The ease function over the progress grid: one animation, its frames.
NextEase ==
    \/ AnimationFrame
    \/ TickGrid

SpecEase == InitEase /\ [][NextEase]_vars

\* Picking: mouse-downs whose ray meets several annotation visuals.
NextPick ==
    \/ AddAnnotationClick
    \/ CancelClick
    \/ MouseDownThrough
    \/ MouseUp

SpecPick == Init /\ [][NextPick]_vars

(***************************************************************************)
(* What the scene and the list show.                                       *)
(***************************************************************************)
\* The scene children tagged as annotation visuals.
TaggedVisuals(children) ==
    {k \in 1 .. Len(children) : children[k].isAnnotationMarker}

\* The markers: the tagged meshes, which carry an annotation index.
MarkersIn(children) ==
    {k \in TaggedVisuals(children) : children[k].kind = "Mesh"}

\* The labels attached to markers.
LabelsIn(children) ==
    {k \in MarkersIn(children) : children[k].label # Null}

\* The markers tagged annotationIndex = index.
MarkersOf(children, index) ==
    {k \in MarkersIn(children) : children[k].annotationIndex = Some(index)}

\* The lines drawn from position.
LinesFrom(children, position) ==
    {k \in TaggedVisuals(children) :
        /\ children[k].kind = "Line"
        /\ children[k].points[1] = position}

\* Exactly one marker is tagged index; it is at the record's position and
\* its label shows the record's label and description.
MarkerShows(children, index, annotation) ==
    /\ Cardinality(MarkersOf(children, index)) = 1
    /\ \A k \in MarkersOf(children, index) :
          /\ children[k].position = annotation.position
          /\ children[k].color = annotation.color
          /\ children[k].label # Null
          /\ children[k].label[1].title = annotation.label
          /\ children[k].label[1].description
                = TextContent(annotation.description)

\* Every record has its marker and its line, and the scene holds no other
\* annotation visual.
VisualsFromArray(children, anns) ==
    /\ \A i \in 0 .. Len(anns) - 1 :
          /\ MarkerShows(children, i, anns[i + 1])
          /\ LinesFrom(children, anns[i + 1].position) # {}
    /\ Cardinality(MarkersIn(children)) = Len(anns)
    /\ Cardinality(TaggedVisuals(children)) = 2 * Len(anns)

\* The program's variables other than the history variables.
programVars ==
    <<annotations, scene, annotationList, currentEditIndex, isDragging,
      draggedAnnotationIndex, controlsEnabled, lockChecked, modalDisplay, form,
      clickHandlers, cameraPosition, controlsTarget, loops>>

(***************************************************************************)
(* C1.  After every add, update and delete, the number of annotation       *)
(* markers in the scene and the number of labels attached to them equal    *)
(* the length of the annotation array, and the array is empty exactly      *)
(* when the scene holds no annotation-tagged visual.                       *)
(***************************************************************************)
C1_CountsEqualLength ==
    /\ Cardinality(MarkersIn(scene)) = Len(annotations)
    /\ Cardinality(LabelsIn(scene)) = Len(annotations)
    /\ (Len(annotations) = 0) <=> (TaggedVisuals(scene) = {})

\* The last record was deleted: the array is empty and no tagged visual is left.
C1_Witness ==
    /\ lastOp.op = "deleteAnnotation"
    /\ Len(annotations) = 0
    /\ TaggedVisuals(scene) = {}
    /\ Len(scene) = Len(Lights)

(***************************************************************************)
(* C2.  After every operation the visuals are determined by the array      *)
(* alone: the marker tagged i is at annotations[i].position and its label  *)
(* shows annotations[i].label and .description, the list shows the labels  *)
(* in array order, and no visual of an earlier array is left in the scene. *)
(***************************************************************************)
C2_VisualsAndListShowArray ==
    /\ VisualsFromArray(scene, annotations)
    /\ Len(annotationList) = Len(annotations)
    /\ \A k \in 1 .. Len(annotations) :
          /\ annotationList[k].dataIndex = ToString(k - 1)
          /\ annotationList[k].text = annotations[k].label

\* The part of C2 that holds: markers, lines and labels are those of the
\* current array, and the list has one item per record, in array order,
\* showing the label as the HTML parser reads it.
VisualsShowArray ==
    /\ VisualsFromArray(scene, annotations)
    /\ Len(annotationList) = Len(annotations)
    /\ \A k \in 1 .. Len(annotations) :
          /\ annotationList[k].dataIndex = ToString(k - 1)
          /\ annotationList[k].text = InnerHTMLText(annotations[k].label)

(***************************************************************************)
(* C3.  delete(i) with 0 <= i < length removes exactly the record at       *)
(* index i: the length decreases by one, the records before i keep their   *)
(* index, the records after i move down by one, and the markers are        *)
(* rebuilt so that each record's marker carries its new index.             *)
(***************************************************************************)
C3_DeleteShiftsDown ==
    [][\A i \in IndexArguments :
        (/\ lastOp'.op = "deleteAnnotation"
         /\ lastOp'.arg = Some(i)
         /\ HasRecord(annotations, i))
        => /\ Len(annotations') = Len(annotations) - 1
           /\ \A j \in 0 .. i - 1 : annotations'[j + 1] = annotations[j + 1]
           /\ \A j \in i + 1 .. Len(annotations) - 1 :
                 annotations'[j] = annotations[j + 1]
           /\ \A j \in 0 .. Len(annotations') - 1 :
                 MarkerShows(scene', j, annotations'[j + 1])
           /\ Cardinality(MarkersIn(scene')) = Len(annotations')]_vars

\* delete(1) on three records: the record made third by the add button is
\* now second, and the marker tagged 1 is its marker.
C3_Witness ==
    /\ lastOp = [op |-> "deleteAnnotation", arg |-> Some(1), threw |-> FALSE]
    /\ Len(annotations) = 2
    /\ annotations[1].label = InitialLabel
    /\ annotations[2].label = AnnotationLabel(3)
    /\ MarkerShows(scene, 1, annotations[2])

(***************************************************************************)
(* C4.  update(index, ...) with an index that references no record is a    *)
(* silent no-op: array, visuals and list are unchanged and no error is     *)
(* raised.  With a valid index it replaces label, position, color, shape   *)
(* and description of that record only, keeps the length and every other   *)
(* record, and re-renders.                                                 *)
(***************************************************************************)
C4_UpdateNeedsRecord ==
    [][\A i \in IndexArguments :
        (lastOp'.op = "updateAnnotation" /\ lastOp'.arg = Some(i))
        => IF HasRecord(annotations, i)
           THEN /\ \E a \in UpdateArguments :
                      /\ annotations'[i + 1].label = a.label
                      /\ annotations'[i + 1].position = a.position
                      /\ annotations'[i + 1].color = a.color
                      /\ annotations'[i + 1].shape = a.shape
                      /\ annotations'[i + 1].description = a.description
                /\ Len(annotations') = Len(annotations)
                /\ \A j \in 0 .. Len(annotations) - 1 :
                      j # i => annotations'[j + 1] = annotations[j + 1]
                /\ MarkerShows(scene', i, annotations'[i + 1])
                /\ ~lastOp'.threw
           ELSE /\ UNCHANGED <<annotations, scene, annotationList>>
                /\ ~lastOp'.threw]_vars

\* update(-1, ...) and update(length, ...) on a store with records.
C4_Witness ==
    /\ lastOp.op = "updateAnnotation"
    /\ lastOp.arg \in {Some(-1), Some(Len(annotations))}
    /\ ~lastOp.threw
    /\ Len(annotations) >= 2
    /\ \A k \in 1 .. Len(annotations) :
          \A a \in UpdateArguments : annotations[k].label # a.label

(***************************************************************************)
(* C5.  add(label, position, color, shape, description) appends exactly    *)
(* one record holding the given values at the end of the array, leaves     *)
(* every existing record and its index unchanged, and re-renders.          *)
(***************************************************************************)
C5_AddAppends ==
    [][lastOp'.op = "addAnnotation"
        => /\ Len(annotations') = Len(annotations) + 1
           /\ \A j \in 1 .. Len(annotations) : annotations'[j] = annotations[j]
           /\ \E a \in AddArguments :
                 LET added == annotations'[Len(annotations) + 1]
                 IN  /\ added.label = a.label
                     /\ added.position = a.position
                     /\ added.color = OrDefault(a.color, DefaultColor)
                     /\ added.shape = OrDefault(a.shape, DefaultShape)
                     /\ added.description = Some(OrDefault(a.description, <<>>))
           /\ MarkerShows(scene', Len(annotations),
                          annotations'[Len(annotations) + 1])
           /\ Len(annotationList') = Len(annotations) + 1]_vars

\* A third record was added with all five arguments given.
C5_Witness ==
    /\ lastOp.op = "addAnnotation"
    /\ Len(annotations) = 3
    /\ annotations[1].label = InitialLabel
    /\ annotations[3] = [position |-> Origin, label |-> <<"Rim">>,
                         description |-> Some(<<"Edge">>),
                         color |-> "#00ff00", shape |-> "cylinder"]
    /\ MarkerShows(scene, 2, annotations[3])

(***************************************************************************)
(* C6.  During a drag, a mouse-move changes at most the position of the    *)
(* record at the dragged index: the other records, the label, color,       *)
(* shape and description of every record, and the length are unchanged.    *)
(***************************************************************************)
C6_DragMovesOneRecord ==
    [][(lastOp'.op = "onMouseMove" /\ isDragging)
        => /\ Len(annotations') = Len(annotations)
           /\ \A j \in 0 .. Len(annotations) - 1 :
                 /\ Some(j) # draggedAnnotationIndex
                       => annotations'[j + 1] = annotations[j + 1]
                 /\ annotations'[j + 1].label = annotations[j + 1].label
                 /\ annotations'[j + 1].color = annotations[j + 1].color
                 /\ annotations'[j + 1].shape = annotations[j + 1].shape
                 /\ annotations'[j + 1].description
                       = annotations[j + 1].description]_vars

\* The third record was dragged onto the proxy sphere while the second,
\* made by the same button, is where it was made.
C6_Witness ==
    /\ lastOp = [op |-> "onMouseMove", arg |-> Some(2), threw |-> FALSE]
    /\ isDragging
    /\ draggedAnnotationIndex = Some(2)
    /\ Len(annotations) = 3
    /\ annotations[3].position \in DragPoints
    /\ annotations[2].position = DefaultPosition
    /\ annotations[1].position = InitialPosition

(***************************************************************************)
(* C7.  focus(i) with i outside 0 .. length - 1 is a no-op: no animation   *)
(* loop is started, and camera position and look-at target are unchanged;  *)
(* for every reachable store, the empty one included.                      *)
(***************************************************************************)
C7_FocusOutOfRangeIsNoOp ==
    [][\A i \in IndexArguments :
        (/\ lastOp'.op = "focusOnAnnotation"
         /\ lastOp'.arg = Some(i)
         /\ ~HasRecord(annotations, i))
        => UNCHANGED <<cameraPosition, controlsTarget, loops,
                       animationsStarted>>]_vars

\* focus(0) on the empty store, while an earlier animation is in flight.
C7_Witness ==
    /\ lastOp = [op |-> "focusOnAnnotation", arg |-> Some(0), threw |-> FALSE]
    /\ Len(annotations) = 0
    /\ loops # <<>>
    /\ animationsStarted = 1

C9_MouseUpEndsDrag ==
    [][lastOp'.op = "onMouseUp"
        => IF isDragging
           THEN /\ ~isDragging'
                /\ draggedAnnotationIndex' = Null
                /\ controlsEnabled'
                /\ UNCHANGED <<currentEditIndex, modalDisplay, annotations,
                               scene, annotationList>>
           ELSE UNCHANGED programVars]_vars

\* The drag of record 1, open in the editor, was ended by a mouse-up.
C9_Witness ==
    /\ lastOp = [op |-> "onMouseUp", arg |-> Some(1), threw |-> FALSE]
    /\ ~isDragging
    /\ draggedAnnotationIndex = Null
    /\ currentEditIndex = Some(1)
    /\ modalDisplay = "flex"
    /\ controlsEnabled

(***************************************************************************)
(* C10.  Modal save and modal cancel both take the controller from         *)
(* editing(i) to idle (currentEditIndex = null); cancel leaves the array   *)
(* unchanged; and while the editor is closed a mouse-down starts no drag.  *)
(***************************************************************************)
C10_SaveAndCancelCloseEditor ==
    [][/\ (lastOp'.op \in {"saveEdit", "closeEditModal"}
            /\ currentEditIndex # Null)
          => currentEditIndex' = Null /\ modalDisplay' = "none"
       /\ lastOp'.op = "closeEditModal"
          => UNCHANGED <<annotations, scene, annotationList>>
       /\ (lastOp'.op = "onMouseDown" /\ currentEditIndex = Null)
          => UNCHANGED <<isDragging, draggedAnnotationIndex, controlsEnabled>>
      ]_vars

\* After the editor was closed, a mouse-down on the marker it had been
\* open on started no drag.
C10_Witness ==
    /\ lastOp = [op |-> "onMouseDown", arg |-> Some(1), threw |-> FALSE]
    /\ clickHandlers = 1
    /\ currentEditIndex = Null
    /\ modalDisplay = "none"
    /\ ~isDragging

(***************************************************************************)
(* C11: the ease function is 0 at progress 0 and 1 at progress 1, its two  *)
(* branches agree at progress 1/2, it does not decrease within either      *)
(* half, and it stays within 0 and 1; a frame at progress 0 leaves the     *)
(* camera at the start values, a frame at progress 1 at the target values. *)
(***************************************************************************)
SameHalf(e1, e2) ==
    \/ 2 * e1 <= Duration /\ 2 * e2 <= Duration
    \/ 2 * e1 >= Duration /\ 2 * e2 >= Duration

C11_EaseFunction ==
    [][\A k \in 1 .. Len(loops) :
          LET loop == loops[k]
              e == loop.elapsed
          IN  /\ 0 <= Eased(e) /\ Eased(e) <= Duration * Duration
              /\ e = 0 => Eased(e) = 0
              /\ e = Duration => Eased(e) = Duration * Duration
              /\ 2 * e = Duration => EaseIn(e) = EaseOut(e)
              /\ \A j \in 1 .. Len(loops') :
                    /\ loops'[j].id = loop.id
                    /\ SameHalf(e, loops'[j].elapsed)
                    => Eased(e) <= Eased(loops'[j].elapsed)
              /\ lastOp'.op = "frame" /\ k = Len(loops) =>
                    /\ e = 0 => /\ cameraPosition' = loop.startPosition
                                /\ controlsTarget' = loop.startTarget
                    /\ e = Duration => /\ cameraPosition' = loop.position
                                       /\ controlsTarget' = loop.lookAt]_vars

\* A frame ran at progress 1/2 and left the camera between start and target.
C11_Witness ==
    /\ lastOp.op = "frame"
    /\ Len(loops) = 1
    /\ 2 * loops[1].elapsed = Duration
    /\ cameraPosition # loops[1].startPosition
    /\ cameraPosition # loops[1].position
    /\ 2 * (cameraPosition[1] - loops[1].startPosition[1])
          = loops[1].position[1] - loops[1].startPosition[1]

(***************************************************************************)
(* C12: every animation loop started by a focus on an existing record      *)
(* ends: with frames delivered and the clock advancing it runs a frame at  *)
(* progress 1, which sets the camera to the record's position at the time  *)
(* of the request plus (2, 1.5, 2) and the target to that position, and    *)
(* asks for no further frame.                                              *)
(***************************************************************************)
RunningIn(pending, id) == \E k \in 1 .. Len(pending) : pending[k].id = id

Running(id) == RunningIn(loops, id)

FocusOps == {"focusOnAnnotation", "listClick"}

\* A focus on an existing record starts a loop towards that record.
FocusStartsLoop ==
    lastOp'.op \in FocusOps /\ HasRecord(annotations, lastOp'.arg[1]) =>
        LET at == annotations[lastOp'.arg[1] + 1].position
            new == loops'[Len(loops')]
        IN  /\ Len(loops') = Len(loops) + 1
            /\ new.id = animationsStarted + 1
            /\ animationsStarted' = animationsStarted + 1
            /\ new.lookAt = at
            /\ new.position = Add3(at, FocusOffset)

\* A loop keeps its targets, and leaves only by its frame at progress 1.
LoopRunsToProgressOne ==
    \A k \in 1 .. Len(loops) :
        LET loop == loops[k]
        IN  /\ \A j \in 1 .. Len(loops') :
                  loops'[j].id = loop.id =>
                      /\ loops'[j].position = loop.position
                      /\ loops'[j].lookAt = loop.lookAt
            /\ loop.elapsed < Duration => RunningIn(loops', loop.id)
            /\ ~RunningIn(loops', loop.id) => lastOp'.op = "frame"
            /\ lastOp'.op = "frame" /\ loop.elapsed = Duration =>
                  /\ ~RunningIn(loops', loop.id)
                  /\ animate(State, loop).cameraPosition = loop.position
                  /\ animate(State, loop).controlsTarget = loop.lookAt
                  /\ animate(State, loop).loops = loops
                  /\ k = Len(loops) =>
                        /\ cameraPosition' = loop.position
                        /\ controlsTarget' = loop.lookAt

C12_FocusLoopTerminates ==
    /\ [][FocusStartsLoop /\ LoopRunsToProgressOne]_vars
    /\ \A id \in 1 .. MaxAnimations : Running(id) ~> ~Running(id)

\* The only loop has ended at the targets of a record deleted meanwhile.
C12_Witness ==
    /\ lastOp.op = "frame"
    /\ loops = <<>>
    /\ animationsStarted = 1
    /\ annotations = <<>>
    /\ cameraPosition = Add3(InitialPosition, FocusOffset)
    /\ controlsTarget = InitialPosition

(***************************************************************************)
(* C13: a focus request made while an earlier animation is in flight       *)
(* cancels nothing: both loops run to their frame at progress 1.  A frame  *)
(* in which several loops run leaves the camera and the target as the      *)
(* latest-started loop wrote them, and when all loops have ended they are  *)
(* the targets of the most recent request.                                 *)
(***************************************************************************)
\* A focus request keeps the pending loops and adds its own behind them.
FocusKeepsLoops ==
    lastOp'.op \in FocusOps /\ HasRecord(annotations, lastOp'.arg[1]) =>
        /\ Len(loops') = Len(loops) + 1
        /\ \A k \in 1 .. Len(loops) : loops'[k] = loops[k]
        /\ \A k \in 1 .. Len(loops) : loops[k].id < loops'[Len(loops')].id

\* A frame runs every pending loop; the last write is the latest loop's.
FrameLastWriteWins ==
    lastOp'.op = "frame" /\ loops # <<>> =>
        LET last == loops[Len(loops)]
        IN  /\ last.id = animationsStarted
            /\ \A k \in 1 .. Len(loops) - 1 :
                  /\ loops[k].id < last.id
                  /\ loops[k].elapsed >= last.elapsed
            /\ cameraPosition' =
                  LerpVectors(last.startPosition, last.position, last.elapsed)
            /\ controlsTarget' =
                  LerpVectors(last.startTarget, last.lookAt, last.elapsed)
            /\ \A k \in 1 .. Len(loops) :
                  RunningIn(loops', loops[k].id) <=> loops[k].elapsed < Duration
            /\ loops' = <<>> => /\ cameraPosition' = last.position
                                /\ controlsTarget' = last.lookAt

\* Nothing but a frame ends a loop, and nothing but a loop moves the camera.
OnlyFramesEndLoops ==
    /\ \A k \in 1 .. Len(loops) :
          ~RunningIn(loops', loops[k].id) => lastOp'.op = "frame"
    /\ loops = <<>> /\ loops' = <<>> =>
          UNCHANGED <<cameraPosition, controlsTarget>>

C13_OverlappingLoopsBothRun ==
    [][FocusKeepsLoops /\ FrameLastWriteWins /\ OnlyFramesEndLoops]_vars

\* Two loops with different targets ran in one frame, the earlier one
\* further on; the camera is where the later one put it.
C13_Witness ==
    /\ lastOp.op = "frame"
    /\ Len(loops) = 2
    /\ loops[1].position # loops[2].position
    /\ loops[1].elapsed > loops[2].elapsed
    /\ cameraPosition =
          LerpVectors(loops[2].startPosition, loops[2].position,
                      loops[2].elapsed)
    /\ cameraPosition #
          LerpVectors(loops[1].startPosition, loops[1].position,
                      loops[1].elapsed)

(***************************************************************************)
(* C14: deleteAnnotation with an index that names no record leaves the     *)
(* array as it is or throws; it never removes a record.                    *)
(***************************************************************************)
C14_DeleteOutOfRangeRemovesNothing ==
    [][lastOp'.op = "deleteAnnotation"
       /\ ~HasRecord(annotations, lastOp'.arg[1])
       => annotations' = annotations \/ lastOp'.threw]_vars

(***************************************************************************)
(* C15: with the editor open on record i, a mouse-down whose ray meets the *)
(* marker of record i starts a drag of i (isDragging, the dragged index i, *)
(* camera controls off); any other mouse-down leaves the drag state, the   *)
(* controls and the array as they are.                                     *)
(***************************************************************************)
\* The ray of the mouse-down just handled met the marker of record index.
RayMetMarker(index) ==
    index # Null /\ \E k \in 1 .. Len(lastInput') : lastInput'[k] = index

C15_MouseDownOnEditedMarkerDrags ==
    [][lastOp'.op = "onMouseDown" =>
          IF RayMetMarker(currentEditIndex)
          THEN /\ isDragging'
               /\ draggedAnnotationIndex' = currentEditIndex
               /\ ~controlsEnabled'
          ELSE UNCHANGED <<isDragging, draggedAnnotationIndex,
                           controlsEnabled, annotations>>]_vars

(***************************************************************************)
(* C16: a mouse-move during the drag of record i whose ray meets the proxy *)
(* sphere puts record i at the first point met and renders everything      *)
(* anew, the drag going on; a mouse-move whose ray misses the sphere, or   *)
(* with no drag going on, changes neither the array nor the visuals nor    *)
(* the controller.                                                         *)
(***************************************************************************)
C16_MouseMoveDragsOrDoesNothing ==
    [][lastOp'.op = "onMouseMove" =>
          IF isDragging /\ draggedAnnotationIndex # Null /\ lastInput' # Null
          THEN /\ ~lastOp'.threw
               /\ annotations' =
                     CopyPosition(annotations, draggedAnnotationIndex[1],
                                  lastInput'[1])
               /\ VisualsFromArray(scene', annotations')
               /\ isDragging'
               /\ UNCHANGED <<draggedAnnotationIndex, currentEditIndex,
                              controlsEnabled, modalDisplay>>
          ELSE UNCHANGED programVars]_vars

\* The second record, being dragged, was moved to a point of the proxy
\* sphere, and its marker and line are drawn there.
C16_Witness ==
    /\ lastOp.op = "onMouseMove"
    /\ lastInput # Null
    /\ isDragging
    /\ draggedAnnotationIndex = Some(1)
    /\ annotations[2].position = lastInput[1]
    /\ annotations[2].position # DefaultPosition
    /\ MarkerShows(scene, 1, annotations[2])
    /\ LinesFrom(scene, lastInput[1]) # {}

(***************************************************************************)
(* C17: after a save of the edit modal, which sets the record's shape, the *)
(* record's marker has the geometry of that shape (a box for cube, and so  *)
(* on), and the array has the length it had.                               *)
(***************************************************************************)
C17_MarkerGeometryFollowsShape ==
    [][(/\ lastOp'.op = "saveEdit"
        /\ currentEditIndex # Null
        /\ ~lastOp'.threw)
       => /\ Len(annotations') = Len(annotations)
          /\ \A k \in MarkersOf(scene', currentEditIndex[1]) :
                scene'[k].geometry
                  = getMarkerGeometry(
                        annotations'[currentEditIndex[1] + 1].shape)]_vars

(***************************************************************************)
(* C18: the add button, pressed with n records in the array, appends one   *)
(* record at (0, 0.2, 1) labelled "Annotation n+1" and opens the editor on *)
(* it: the length is then n + 1 and currentEditIndex is n, whichever       *)
(* record the editor was open on before.                                   *)
(***************************************************************************)
C18_AddButtonAppendsAndOpens ==
    [][lastOp'.op = "addNewAnnotation" =>
          LET n == Len(annotations)
          IN  /\ ~lastOp'.threw
              /\ Len(annotations') = n + 1
              /\ \A k \in 1 .. n : annotations'[k] = annotations[k]
              /\ annotations'[n + 1].position = DefaultPosition
              /\ annotations'[n + 1].label = AnnotationLabel(n + 1)
              /\ currentEditIndex' = Some(n)
              /\ modalDisplay' = "flex"
              /\ form'.label = AnnotationLabel(n + 1)]_vars

\* The button was pressed with two records, the editor open on the second
\* since an earlier press: the third record is there and the editor on it.
C18_Witness ==
    /\ lastOp.op = "addNewAnnotation"
    /\ Len(annotations) = 3
    /\ clickHandlers >= 2
    /\ currentEditIndex = Some(2)
    /\ annotations[3].position = DefaultPosition
    /\ annotations[3].label = AnnotationLabel(3)
    /\ annotations[2].label = AnnotationLabel(2)
    /\ modalDisplay = "flex"

(***************************************************************************)
(* C19: currentEditIndex and draggedAnnotationIndex are each null or the   *)
(* index of a record of the array, after any add-new, delete, save,        *)
(* cancel and mouse event.                                                 *)
(***************************************************************************)
C19_EditAndDragIndexesValid ==
    /\ currentEditIndex = Null
          \/ HasRecord(annotations, currentEditIndex[1])
    /\ draggedAnnotationIndex = Null
          \/ HasRecord(annotations, draggedAnnotationIndex[1])

(***************************************************************************)
(* C20: whatever the order of lock-position toggles, mouse-downs and       *)
(* mouse-ups, the camera controls are enabled exactly when the lock is     *)
(* unchecked and no drag is going on.                                      *)
(***************************************************************************)
C20_ControlsFollowLockAndDrag ==
    controlsEnabled <=> (~lockChecked /\ ~isDragging)

(***************************************************************************)
(* C21: a save of the edit modal open on record i sets the label, the      *)
(* color and the shape of record i to the modal's fields (the label        *)
(* trimmed) and changes nothing else: not the position or the description  *)
(* of record i, no other record, not the length of the array.              *)
(***************************************************************************)
C21_SaveChangesLabelColorShapeOnly ==
    [][(/\ lastOp'.op = "saveEdit"
        /\ currentEditIndex # Null
        /\ HasRecord(annotations, currentEditIndex[1]))
       => LET i == currentEditIndex[1]
          IN  /\ Len(annotations') = Len(annotations)
              /\ \A j \in 0 .. Len(annotations) - 1 :
                    j # i => annotations'[j + 1] = annotations[j + 1]
              /\ annotations'[i + 1].label = Trim(form.label)
              /\ annotations'[i + 1].color = form.color
              /\ annotations'[i + 1].shape = form.shape
              /\ annotations'[i + 1].position = annotations[i + 1].position
              /\ annotations'[i + 1].description
                    = annotations[i + 1].description]_vars

(***************************************************************************)
(* C22: however many save and cancel handlers the earlier openings of the  *)
(* modal have registered, one click on save writes the record once and     *)
(* one click on save or on cancel closes the editor; the further handlers  *)
(* run by the same click change nothing.                                   *)
(***************************************************************************)
C22_OneClickAppliesOnce ==
    [][/\ (lastOp'.op = "saveEdit" /\ currentEditIndex # Null) =>
              /\ ~lastOp'.threw
              /\ lastUpdates' = 1
              /\ annotations' = saveEdit(State).annotations
              /\ scene' = saveEdit(State).scene
              /\ annotationList' = saveEdit(State).annotationList
              /\ currentEditIndex' = Null
              /\ modalDisplay' = "none"
       /\ (lastOp'.op = "saveEdit" /\ currentEditIndex = Null) =>
              /\ ~lastOp'.threw
              /\ lastUpdates' = 0
              /\ UNCHANGED programVars
       /\ lastOp'.op = "closeEditModal" =>
              /\ ~lastOp'.threw
              /\ lastUpdates' = 0
              /\ currentEditIndex' = Null
              /\ modalDisplay' = "none"
              /\ UNCHANGED <<annotations, scene, annotationList>>]_vars

\* Save was clicked with two save handlers registered, the modal open on
\* the third record with a typed label: the record was written once.
C22_Witness ==
    /\ lastOp = [op |-> "saveEdit", arg |-> Some(2), threw |-> FALSE]
    /\ clickHandlers = 2
    /\ lastUpdates = 1
    /\ currentEditIndex = Null
    /\ modalDisplay = "none"
    /\ annotations[3].label = <<"Gate">>

====
